---------------------------- MODULE Spec2Model ----------------------------
(***************************************************************************)
(* PDF-Comparator: the text-diff engine (text_comparison.compare_texts),   *)
(* its summary statistics (text_comparison.generate_summary), the renderer *)
(* (utils.highlight_differences), the text extraction (pdf_processor) and  *)
(* the request flow of app.main.                                           *)
(*                                                                         *)
(* A Python str is a sequence of one-character strings; a diff record is   *)
(* [type, old_content, new_content].  Indices into paragraph and sentence  *)
(* lists are Python's (0-based, spans half-open); At(s, i) reads s[i].     *)
(***************************************************************************)
EXTENDS Integers, Sequences, FiniteSets, TLC

VARIABLES pc, text1, text2, diffs, summary, version, highlighted_text,
          opcodes, sentence_opcodes, alignments,
          pdf1, pdf2, temp_dir, errors, html_export, pdf_export, views,
          temp_html

\* The loops of compare_texts: the paragraph opcodes and the sentence opcodes
\* still to be handled, and the number of sentence alignments made so far.
stepVars == <<opcodes, sentence_opcodes, alignments>>

\* main: the two uploads, the temporary directory, the st.error messages
\* shown, the outcome of each export, the detail views rendered and the
\* temporary HTML file of export_as_pdf.
mainVars == <<pdf1, pdf2, temp_dir, errors, html_export, pdf_export, views,
              temp_html>>

vars == <<pc, text1, text2, diffs, summary, version, highlighted_text,
          stepVars, mainVars>>

(***************************************************************************)
(* Bounds of the explored inputs.                                          *)
(***************************************************************************)
\* The two generated texts together are the concatenation of at most
\* MaxTokens tokens.
MaxTokens == 5
\* A generated record list has at most MaxRecords records.
MaxRecords == 2
\* A generated PDF has at most MaxPages pages.
MaxPages == 2

(***************************************************************************)
(* Python string primitives.                                               *)
(***************************************************************************)
At(s, i) == s[i + 1]

\* s[i:j]
Slice(s, i, j) == SubSeq(s, i + 1, j)

\* Characters matched by \s, split on by str.split() and stripped by
\* str.strip(), those for which str.isspace() holds: space, \t, \n, \r, \f,
\* then \v (0x0B), the separators 0x1C to 0x1F, U+0085, U+00A0 and U+1680,
\* written as the characters themselves.  Python has U+2000 to U+200A,
\* U+2028, U+2029, U+202F, U+205F and U+3000 as well, which a string of
\* this language cannot hold.
Whitespace ==
    {" ", "\t", "\n", "\r", "\f",
     "", "", "", "", "",
     "", " ", " "}

\* The class [.!?] of the sentence-boundary lookbehind.
SentenceEnd == {".", "!", "?"}

\* The paragraph delimiter '\n\n'.
ParagraphSep == <<"\n", "\n">>

\* The least element of a non-empty set of integers.
Least(S) == CHOOSE m \in S : \A x \in S : m <= x

RECURSIVE Concat(_)
\* ''.join(parts), the two halves of parts joined in turn.
Concat(parts) ==
    IF parts = <<>> THEN <<>>
    ELSE IF Len(parts) = 1 THEN parts[1]
    ELSE LET half == Len(parts) \div 2
         IN  Concat(SubSeq(parts, 1, half))
                 \o Concat(SubSeq(parts, half + 1, Len(parts)))

RECURSIVE Join(_, _)
\* sep.join(parts)
Join(sep, parts) ==
    IF parts = <<>> THEN <<>>
    ELSE IF Len(parts) = 1 THEN parts[1]
    ELSE parts[1] \o sep \o Join(sep, Tail(parts))

\* text.replace(c, by) for a one-character c
ReplaceChars(text, c, by) ==
    Concat([k \in 1..Len(text) |-> IF text[k] = c THEN by ELSE <<text[k]>>])

\* The indices from i on at which s holds '\n\n'.
SepsFrom(s, i) ==
    {k \in i..(Len(s) - 2) : At(s, k) = "\n" /\ At(s, k + 1) = "\n"}

RECURSIVE SplitOnSep(_, _)
\* The pieces of s[i:] split on '\n\n': up to the first delimiter from i on,
\* then those of the rest.
SplitOnSep(s, i) ==
    IF SepsFrom(s, i) = {} THEN <<Slice(s, i, Len(s))>>
    ELSE LET k == Least(SepsFrom(s, i))
         IN  <<Slice(s, i, k)>> \o SplitOnSep(s, k + 2)

\* text.split('\n\n')
SplitParagraphs(text) == SplitOnSep(text, 0)

RECURSIVE SkipWhitespace(_, _)
\* The end of the run of whitespace that starts at s[i]: the greedy \s+.
SkipWhitespace(s, i) ==
    IF i < Len(s) /\ At(s, i) \in Whitespace THEN SkipWhitespace(s, i + 1) ELSE i

\* The indices from i on at which whitespace follows . ! or ?
BoundariesFrom(s, i) ==
    {k \in i..(Len(s) - 1) :
        k > 0 /\ At(s, k - 1) \in SentenceEnd /\ At(s, k) \in Whitespace}

RECURSIVE SplitAtBoundary(_, _)
\* The pieces of s[i:] split at each whitespace run that follows . ! or ?:
\* up to the first such run from i on, then those of the rest after the run.
SplitAtBoundary(s, i) ==
    IF BoundariesFrom(s, i) = {} THEN <<Slice(s, i, Len(s))>>
    ELSE LET k == Least(BoundariesFrom(s, i))
         IN  <<Slice(s, i, k)>> \o SplitAtBoundary(s, SkipWhitespace(s, k))

RECURSIVE SplitAtWhitespace(_, _, _)
SplitAtWhitespace(s, i, cur) ==
    IF i >= Len(s) THEN <<cur>>
    ELSE IF At(s, i) \in Whitespace
         THEN <<cur>> \o SplitAtWhitespace(s, SkipWhitespace(s, i), <<>>)
         ELSE SplitAtWhitespace(s, i + 1, Append(cur, At(s, i)))

\* Mutant of SplitSentences: the pattern without its lookbehind, r'\s+'.
SplitSentencesNoLookbehind(content) == SplitAtWhitespace(content, 0, <<>>)

\* re.split(r'(?<=[.!?])\s+', content)
SplitSentences(content) == SplitAtBoundary(content, 0)

\* The indices at which a maximal run of non-whitespace starts in s.
WordStarts(s) ==
    {k \in 0..(Len(s) - 1) :
        At(s, k) \notin Whitespace /\ (k = 0 \/ At(s, k - 1) \in Whitespace)}

\* len(content.split())
WordCount(content) == Cardinality(WordStarts(content))

(***************************************************************************)
(* difflib.SequenceMatcher(None, a, b): no junk predicate, autojunk on.    *)
(***************************************************************************)
\* The elements of b that autojunk drops from b2j: b has 200 elements or
\* more and the element occurs more than len(b) // 100 + 1 times.
Popular(b) ==
    IF Len(b) >= 200
    THEN {b[j] : j \in {k \in 1..Len(b) :
              Cardinality({m \in 1..Len(b) : b[m] = b[k]}) > (Len(b) \div 100) + 1}}
    ELSE {}

RECURSIVE RunLength(_, _, _, _, _, _)
\* k = newj2len[j] at row i: the length of the run of equal, indexed pairs
\* that ends at (a[i], b[j]) and starts no earlier than (alo, blo).
RunLength(a, b, alo, blo, i, j) ==
    IF At(a, i) = At(b, j) /\ At(b, j) \notin Popular(b)
    THEN 1 + (IF i > alo /\ j > blo THEN RunLength(a, b, alo, blo, i - 1, j - 1) ELSE 0)
    ELSE 0

RECURSIVE ExtendBack(_, _, _, _, _)
\* The first extension loop: grow the match to the left over equal elements.
ExtendBack(a, b, alo, blo, m) ==
    IF m.i > alo /\ m.j > blo /\ At(a, m.i - 1) = At(b, m.j - 1)
    THEN ExtendBack(a, b, alo, blo, [i |-> m.i - 1, j |-> m.j - 1, size |-> m.size + 1])
    ELSE m

RECURSIVE ExtendForward(_, _, _, _, _)
\* The second extension loop: grow the match to the right.
ExtendForward(a, b, ahi, bhi, m) ==
    IF m.i + m.size < ahi /\ m.j + m.size < bhi
          /\ At(a, m.i + m.size) = At(b, m.j + m.size)
    THEN ExtendForward(a, b, ahi, bhi, [m EXCEPT !.size = m.size + 1])
    ELSE m

\* find_longest_match(alo, ahi, blo, bhi): the longest matching block, the
\* one starting earliest in a, and of those earliest in b (k > bestsize is
\* strict, rows and columns are scanned upwards).
FindLongestMatch(a, b, alo, ahi, blo, bhi) ==
    LET cells == (alo..(ahi - 1)) \X (blo..(bhi - 1))
        k[c \in cells] == RunLength(a, b, alo, blo, c[1], c[2])
        bestsize == IF \E c \in cells : k[c] > 0
                    THEN CHOOSE n \in {k[c] : c \in cells} :
                             \A c \in cells : k[c] <= n
                    ELSE 0
        hits == {c \in cells : k[c] = bestsize}
        first == CHOOSE c \in hits :
                     \A d \in hits : c[1] < d[1] \/ (c[1] = d[1] /\ c[2] <= d[2])
        found == IF bestsize = 0
                 THEN [i |-> alo, j |-> blo, size |-> 0]
                 ELSE [i |-> first[1] - bestsize + 1,
                       j |-> first[2] - bestsize + 1, size |-> bestsize]
    IN  ExtendForward(a, b, ahi, bhi, ExtendBack(a, b, alo, blo, found))

RECURSIVE MatchingBlocksIn(_, _, _, _, _, _)
\* The blocks the queue of get_matching_blocks finds in a[alo:ahi], b[blo:bhi],
\* in the order matching_blocks.sort() leaves them: left part, block, right part.
MatchingBlocksIn(a, b, alo, ahi, blo, bhi) ==
    LET x == FindLongestMatch(a, b, alo, ahi, blo, bhi)
    IN  IF x.size = 0 THEN <<>>
        ELSE (IF alo < x.i /\ blo < x.j
              THEN MatchingBlocksIn(a, b, alo, x.i, blo, x.j) ELSE <<>>)
             \o <<x>>
             \o (IF x.i + x.size < ahi /\ x.j + x.size < bhi
                 THEN MatchingBlocksIn(a, b, x.i + x.size, ahi, x.j + x.size, bhi)
                 ELSE <<>>)

RECURSIVE CollapseAdjacent(_, _)
\* The non_adjacent loop: cur = (i1, j1, k1) absorbs each block that starts
\* where it ends; a block of size 0 is never appended.
CollapseAdjacent(blocks, cur) ==
    IF blocks = <<>> THEN (IF cur.size > 0 THEN <<cur>> ELSE <<>>)
    ELSE LET nxt == Head(blocks)
         IN  IF cur.i + cur.size = nxt.i /\ cur.j + cur.size = nxt.j
             THEN CollapseAdjacent(Tail(blocks), [cur EXCEPT !.size = cur.size + nxt.size])
             ELSE (IF cur.size > 0 THEN <<cur>> ELSE <<>>)
                      \o CollapseAdjacent(Tail(blocks), nxt)

\* get_matching_blocks(): the collapsed blocks and the sentinel (la, lb, 0).
GetMatchingBlocks(a, b) ==
    CollapseAdjacent(MatchingBlocksIn(a, b, 0, Len(a), 0, Len(b)),
                     [i |-> 0, j |-> 0, size |-> 0])
        \o <<[i |-> Len(a), j |-> Len(b), size |-> 0]>>

RECURSIVE OpcodesFromNoReplace(_, _, _)
\* Mutant of OpcodesFrom: a gap with elements on both sides is reported as a
\* delete followed by an insert, never as a replace.
OpcodesFromNoReplace(blocks, i, j) ==
    IF blocks = <<>> THEN <<>>
    ELSE LET m == Head(blocks)
             del == IF i < m.i
                    THEN <<[tag |-> "delete", i1 |-> i, i2 |-> m.i, j1 |-> j, j2 |-> j]>>
                    ELSE <<>>
             ins == IF j < m.j
                    THEN <<[tag |-> "insert", i1 |-> m.i, i2 |-> m.i, j1 |-> j, j2 |-> m.j]>>
                    ELSE <<>>
             same == IF m.size > 0
                     THEN <<[tag |-> "equal", i1 |-> m.i, i2 |-> m.i + m.size,
                             j1 |-> m.j, j2 |-> m.j + m.size]>>
                     ELSE <<>>
         IN  del \o ins \o same
                 \o OpcodesFromNoReplace(Tail(blocks), m.i + m.size, m.j + m.size)

RECURSIVE OpcodesFrom(_, _, _)
\* The loop of get_opcodes over the matching blocks, (i, j) being where the
\* previous block ended.
OpcodesFrom(blocks, i, j) ==
    IF blocks = <<>> THEN <<>>
    ELSE LET m == Head(blocks)
             tag == IF i < m.i /\ j < m.j THEN "replace"
                    ELSE IF i < m.i THEN "delete"
                    ELSE IF j < m.j THEN "insert"
                    ELSE ""
             gap == IF tag # ""
                    THEN <<[tag |-> tag, i1 |-> i, i2 |-> m.i, j1 |-> j, j2 |-> m.j]>>
                    ELSE <<>>
             same == IF m.size > 0
                     THEN <<[tag |-> "equal", i1 |-> m.i, i2 |-> m.i + m.size,
                             j1 |-> m.j, j2 |-> m.j + m.size]>>
                     ELSE <<>>
         IN  gap \o same \o OpcodesFrom(Tail(blocks), m.i + m.size, m.j + m.size)

\* SequenceMatcher(None, a, b).get_opcodes()
GetOpcodes(a, b) == OpcodesFrom(GetMatchingBlocks(a, b), 0, 0)

(***************************************************************************)
(* text_comparison.compare_texts                                           *)
(***************************************************************************)
\* Mutant of SanitizeForDisplay: '&' is escaped too, before the others.
SanitizeForDisplayAmpersand(text) ==
    ReplaceChars(ReplaceChars(ReplaceChars(ReplaceChars(ReplaceChars(text,
        "&", <<"&", "a", "m", "p", ";">>),
        "<", <<"&", "l", "t", ";">>),
        ">", <<"&", "g", "t", ";">>),
        "{", <<"&", "#", "1", "2", "3", ";">>),
        "}", <<"&", "#", "1", "2", "5", ";">>)

\* sanitize_for_display(text)
SanitizeForDisplay(text) ==
    ReplaceChars(ReplaceChars(ReplaceChars(ReplaceChars(text,
        "<", <<"&", "l", "t", ";">>),
        ">", <<"&", "g", "t", ";">>),
        "{", <<"&", "#", "1", "2", "3", ";">>),
        "}", <<"&", "#", "1", "2", "5", ";">>)

DiffRecord(type, old, new) ==
    [type |-> type, old_content |-> old, new_content |-> new]

RECURSIVE RecordsOverBothSides(_, _, _, _)
\* Mutant of RecordsOver: every record carries the element on both sides.
RecordsOverBothSides(type, s, lo, hi) ==
    IF lo >= hi THEN <<>>
    ELSE <<DiffRecord(type, At(s, lo), At(s, lo))>>
             \o RecordsOverBothSides(type, s, lo + 1, hi)

RECURSIVE RecordsOver(_, _, _, _)
\* One record of the type per element of s[lo:hi], the element on the side
\* (or sides) the type has.
RecordsOver(type, s, lo, hi) ==
    IF lo >= hi THEN <<>>
    ELSE <<DiffRecord(type,
                      IF type = "added" THEN <<>> ELSE At(s, lo),
                      IF type = "deleted" THEN <<>> ELSE At(s, lo))>>
             \o RecordsOver(type, s, lo + 1, hi)

\* Mutant of SentenceRecords: a replace, delete or insert span carries only
\* its first sentence.
SentenceRecordsFirstOnly(op, old_sentences, new_sentences) ==
    CASE op.tag = "equal" ->
             RecordsOver("equal", old_sentences, op.i1, op.i2)
      [] op.tag = "replace" ->
             <<DiffRecord("modified", At(old_sentences, op.i1), At(new_sentences, op.j1))>>
      [] op.tag = "delete" ->
             <<DiffRecord("deleted", At(old_sentences, op.i1), <<>>)>>
      [] op.tag = "insert" ->
             <<DiffRecord("added", <<>>, At(new_sentences, op.j1))>>

\* Mutant of SentenceRecords: a delete or insert span yields one record per
\* sentence, as at the paragraph level.
SentenceRecordsPerSentence(op, old_sentences, new_sentences) ==
    CASE op.tag = "equal" ->
             RecordsOver("equal", old_sentences, op.i1, op.i2)
      [] op.tag = "replace" ->
             <<DiffRecord("modified",
                          Join(<<" ">>, Slice(old_sentences, op.i1, op.i2)),
                          Join(<<" ">>, Slice(new_sentences, op.j1, op.j2)))>>
      [] op.tag = "delete" ->
             RecordsOver("deleted", old_sentences, op.i1, op.i2)
      [] op.tag = "insert" ->
             RecordsOver("added", new_sentences, op.j1, op.j2)

\* The body of the loop over sentence_opcodes for one opcode.
SentenceRecords(op, old_sentences, new_sentences) ==
    CASE op.tag = "equal" ->
             RecordsOver("equal", old_sentences, op.i1, op.i2)
      [] op.tag = "replace" ->
             <<DiffRecord("modified",
                          Join(<<" ">>, Slice(old_sentences, op.i1, op.i2)),
                          Join(<<" ">>, Slice(new_sentences, op.j1, op.j2)))>>
      [] op.tag = "delete" ->
             <<DiffRecord("deleted",
                          Join(<<" ">>, Slice(old_sentences, op.i1, op.i2)), <<>>)>>
      [] op.tag = "insert" ->
             <<DiffRecord("added", <<>>,
                          Join(<<" ">>, Slice(new_sentences, op.j1, op.j2)))>>

RECURSIVE SentenceLoop(_, _, _)
SentenceLoop(ops, old_sentences, new_sentences) ==
    IF ops = <<>> THEN <<>>
    ELSE SentenceRecords(Head(ops), old_sentences, new_sentences)
             \o SentenceLoop(Tail(ops), old_sentences, new_sentences)

\* old_sentences of a 'replace' opcode: its span of the first text, joined
\* and split into sentences.
OldSentencesOf(op, paragraphs1) ==
    SplitSentences(Join(ParagraphSep, Slice(paragraphs1, op.i1, op.i2)))

\* new_sentences of a 'replace' opcode.
NewSentencesOf(op, paragraphs2) ==
    SplitSentences(Join(ParagraphSep, Slice(paragraphs2, op.j1, op.j2)))

\* The 'replace' branch: the two spans joined, split into sentences, aligned.
RefineReplace(op, paragraphs1, paragraphs2) ==
    LET old_content == Join(ParagraphSep, Slice(paragraphs1, op.i1, op.i2))
        new_content == Join(ParagraphSep, Slice(paragraphs2, op.j1, op.j2))
        old_sentences == SplitSentences(old_content)
        new_sentences == SplitSentences(new_content)
    IN  SentenceLoop(GetOpcodes(old_sentences, new_sentences),
                     old_sentences, new_sentences)

\* Mutant of ParagraphRecords: an equal span yields one record for the whole
\* span instead of one per paragraph.
ParagraphRecordsEqualSpan(op, paragraphs1, paragraphs2) ==
    CASE op.tag = "equal" ->
             <<DiffRecord("equal",
                          Join(ParagraphSep, Slice(paragraphs1, op.i1, op.i2)),
                          Join(ParagraphSep, Slice(paragraphs1, op.i1, op.i2)))>>
      [] op.tag = "replace" -> RefineReplace(op, paragraphs1, paragraphs2)
      [] op.tag = "delete"  -> RecordsOver("deleted", paragraphs1, op.i1, op.i2)
      [] op.tag = "insert"  -> RecordsOver("added", paragraphs2, op.j1, op.j2)

\* Mutant of ParagraphRecords: a replace span is not refined, it yields one
\* modified record for the whole span.
ParagraphRecordsUnrefined(op, paragraphs1, paragraphs2) ==
    CASE op.tag = "equal"   -> RecordsOver("equal", paragraphs1, op.i1, op.i2)
      [] op.tag = "replace" ->
             <<DiffRecord("modified",
                          Join(ParagraphSep, Slice(paragraphs1, op.i1, op.i2)),
                          Join(ParagraphSep, Slice(paragraphs2, op.j1, op.j2)))>>
      [] op.tag = "delete"  -> RecordsOver("deleted", paragraphs1, op.i1, op.i2)
      [] op.tag = "insert"  -> RecordsOver("added", paragraphs2, op.j1, op.j2)

\* The body of the loop over the paragraph opcodes for one opcode.
ParagraphRecords(op, paragraphs1, paragraphs2) ==
    CASE op.tag = "equal"   -> RecordsOver("equal", paragraphs1, op.i1, op.i2)
      [] op.tag = "replace" -> RefineReplace(op, paragraphs1, paragraphs2)
      [] op.tag = "delete"  -> RecordsOver("deleted", paragraphs1, op.i1, op.i2)
      [] op.tag = "insert"  -> RecordsOver("added", paragraphs2, op.j1, op.j2)

RECURSIVE ParagraphLoop(_, _, _)
ParagraphLoop(ops, paragraphs1, paragraphs2) ==
    IF ops = <<>> THEN <<>>
    ELSE ParagraphRecords(Head(ops), paragraphs1, paragraphs2)
             \o ParagraphLoop(Tail(ops), paragraphs1, paragraphs2)

\* compare_texts(t1, t2)
compare_texts(t1, t2) ==
    LET paragraphs1 == SplitParagraphs(SanitizeForDisplay(t1))
        paragraphs2 == SplitParagraphs(SanitizeForDisplay(t2))
    IN  ParagraphLoop(GetOpcodes(paragraphs1, paragraphs2), paragraphs1, paragraphs2)

(***************************************************************************)
(* text_comparison.generate_summary                                        *)
(***************************************************************************)
RECURSIVE CountTypeNoEqual(_, _)
\* Mutant of CountType: the loop has no branch for equal records.
CountTypeNoEqual(ds, type) ==
    IF ds = <<>> \/ type = "equal" THEN 0
    ELSE (IF Head(ds).type = type THEN 1 ELSE 0) + CountTypeNoEqual(Tail(ds), type)

RECURSIVE CountType(_, _)
\* The counter the loop increments for records of one type.
CountType(ds, type) ==
    IF ds = <<>> THEN 0
    ELSE (IF Head(ds).type = type THEN 1 ELSE 0) + CountType(Tail(ds), type)

RECURSIVE ContentOfOldSide(_, _, _)
\* Mutant of ContentOf: old_content is appended whatever the type.
ContentOfOldSide(ds, type, side) ==
    IF ds = <<>> THEN <<>>
    ELSE (IF Head(ds).type = type THEN <<Head(ds).old_content>> ELSE <<>>)
             \o ContentOfOldSide(Tail(ds), type, side)

RECURSIVE ContentOf(_, _, _)
\* added_content, deleted_content, modified_content: the field the loop
\* appends for each record of the type.
ContentOf(ds, type, side) ==
    IF ds = <<>> THEN <<>>
    ELSE (IF Head(ds).type = type
          THEN <<IF side = "old" THEN Head(ds).old_content ELSE Head(ds).new_content>>
          ELSE <<>>)
             \o ContentOf(Tail(ds), type, side)

RECURSIVE SumWords(_)
\* sum(len(content.split()) for content in contents)
SumWords(contents) ==
    IF contents = <<>> THEN 0
    ELSE WordCount(Head(contents)) + SumWords(Tail(contents))

\* The bits of the significand of a Python float (a binary64).
MantissaBits == 53

\* A float is the number mant * 2^exp: mant the bits of its significand, the
\* most significant first and 1 unless the number is 0.  The float 0.0:
Zero == [mant |-> [k \in 1..MantissaBits |-> 0], exp |-> 0]

\* What '/' leaves when it raises ZeroDivisionError: no number.
ZeroDivisionError == [mant |-> <<>>, exp |-> 0]

\* The 31 bits of a natural number below 2^31, the most significant first.
BitsOf(n) == [j \in 1..31 |-> (n \div 2^(31 - j)) % 2]

\* The bits without their leading zeros.
Trim(bits) ==
    LET first == CHOOSE j \in 1..(Len(bits) + 1) :
                     /\ j > Len(bits) \/ bits[j] = 1
                     /\ \A i \in 1..(j - 1) : bits[i] = 0
    IN  SubSeq(bits, first, Len(bits))

RECURSIVE Carried(_, _, _)
\* The school multiplication of the bits by m from the least significant
\* bit: v[i] is m times bit i plus the carry of the lower bits, half of
\* v[i - 1]; v holds those of the bits done.
Carried(v, bits, m) ==
    IF Len(v) = Len(bits) THEN v
    ELSE LET i == Len(v) + 1
             carry == IF i = 1 THEN 0 ELSE v[i - 1] \div 2
         IN  Carried(Append(v, m * bits[Len(bits) + 1 - i] + carry), bits, m)

\* The bits of the exact product of the number of the bits, of which there
\* is one at least, and a natural m.
Product(bits, m) ==
    LET n == Len(bits)
        v == Carried(<<>>, bits, m)
    IN  BitsOf(v[n] \div 2) \o [j \in 1..n |-> v[n + 1 - j] % 2]

\* The bits plus one, some bit being 0.
PlusOne(bits) ==
    [k \in 1..Len(bits) |->
        IF \A j \in (k + 1)..Len(bits) : bits[j] = 1
        THEN 1 - bits[k] ELSE bits[k]]

\* The float of the significand bits, rounded up by one unit of the last bit
\* when 'up'.
Rounded(bits, exp, up) ==
    IF ~up THEN [mant |-> bits, exp |-> exp]
    ELSE IF \A k \in 1..Len(bits) : bits[k] = 1
         THEN [mant |-> [k \in 1..Len(bits) |-> IF k = 1 THEN 1 ELSE 0],
               exp |-> exp + 1]
         ELSE [mant |-> PlusOne(bits), exp |-> exp]

\* The float nearest to the number of the bits times 2^exp, the bits having
\* no leading zero and at least MantissaBits of them: to the nearest, a tie
\* to the even significand.
RoundBits(bits, exp) ==
    LET d == Len(bits) - MantissaBits
        up == /\ d > 0
              /\ bits[MantissaBits + 1] = 1
              /\ \/ bits[MantissaBits] = 1
                 \/ \E j \in (MantissaBits + 2)..Len(bits) : bits[j] = 1
    IN  Rounded(SubSeq(bits, 1, MantissaBits), exp + d, up)

RECURSIVE Doubled(_, _, _)
\* The long division by b: after x, twice the remainder of its last element,
\* until there are n elements.
Doubled(x, b, n) ==
    IF Len(x) = n THEN x
    ELSE Doubled(Append(x, 2 * (x[Len(x)] % b)), b, n)

\* count / total_elements of two natural numbers: the float nearest to the
\* quotient, by long division of a = count * 2^s by b = total_elements * 2^u
\* with b <= a < 2b; bit k of the significand is the quotient of x[k] by b.
Divide(count, total_elements) ==
    IF total_elements = 0 THEN ZeroDivisionError
    ELSE IF count = 0 THEN Zero
    ELSE LET s == Least({n \in 0..29 :
                           count >= (total_elements + 2^n - 1) \div 2^n})
             u == Least({n \in 0..29 : count \div total_elements < 2^(n + 1)})
             a == count * 2^s
             b == total_elements * 2^u
             x == Doubled(<<a>>, b, MantissaBits + 1)
             bits == [k \in 1..MantissaBits |-> x[k] \div b]
             up == \/ x[MantissaBits + 1] > b
                   \/ x[MantissaBits + 1] = b /\ bits[MantissaBits] = 1
         IN  Rounded(bits, u - s - (MantissaBits - 1), up)

\* f * m of a float and a natural number: the float nearest to the product;
\* an exception raised in f goes on.
Times(f, m) ==
    IF f.mant = <<>> THEN f
    ELSE IF f = Zero \/ m = 0 THEN Zero
    ELSE RoundBits(Trim(Product(f.mant, m)), f.exp)

\* Mutant of Percentage: the division without its guard.
PercentageUnguarded(count, total_elements) ==
    Times(Divide(count, total_elements), 100)

\* (count / total_elements * 100) if total_elements > 0 else 0: the float of
\* the division, then of the product; the 0 of the else branch is an int,
\* which Python holds equal to the float 0.0.
Percentage(count, total_elements) ==
    IF total_elements > 0
    THEN Times(Divide(count, total_elements), 100)
    ELSE Zero

\* generate_summary(ds)
generate_summary(ds) ==
    LET added == CountType(ds, "added")
        deleted == CountType(ds, "deleted")
        modified == CountType(ds, "modified")
        unchanged == CountType(ds, "equal")
        total_elements == added + deleted + modified + unchanged
    IN  [total_elements |-> total_elements,
         additions |-> [count |-> added,
                        percentage |-> Percentage(added, total_elements),
                        words |-> SumWords(ContentOf(ds, "added", "new"))],
         deletions |-> [count |-> deleted,
                        percentage |-> Percentage(deleted, total_elements),
                        words |-> SumWords(ContentOf(ds, "deleted", "old"))],
         modifications |-> [count |-> modified,
                            percentage |-> Percentage(modified, total_elements),
                            words_old |-> SumWords(ContentOf(ds, "modified", "old")),
                            words_new |-> SumWords(ContentOf(ds, "modified", "new"))],
         unchanged |-> [count |-> unchanged,
                        percentage |-> Percentage(unchanged, total_elements)]]

(***************************************************************************)
(* utils.highlight_differences: the HTML string as the sequence of the <p> *)
(* elements appended to it, each [id, background, text].                   *)
(***************************************************************************)
\* sanitize_content(content)
SanitizeContent(content) ==
    ReplaceChars(ReplaceChars(content,
        "<", <<"&", "l", "t", ";">>),
        ">", <<"&", "g", "t", ";">>)

\* '[Content only in second document]'
PlaceholderSecond ==
    <<"[", "C", "o", "n", "t", "e", "n", "t", " ", "o", "n", "l", "y", " ",
      "i", "n", " ", "s", "e", "c", "o", "n", "d", " ", "d", "o", "c", "u",
      "m", "e", "n", "t", "]">>

\* '[Content only in first document]'
PlaceholderFirst ==
    <<"[", "C", "o", "n", "t", "e", "n", "t", " ", "o", "n", "l", "y", " ",
      "i", "n", " ", "f", "i", "r", "s", "t", " ", "d", "o", "c", "u", "m",
      "e", "n", "t", "]">>

\* The element without an id: an equal paragraph, or a placeholder.
Paragraph(background, text) ==
    [id |-> <<>>, background |-> background, text |-> text]

\* The element with id '{version}-{kind}-{count}' and a highlighted span.
Anchored(ver, kind, count, background, text) ==
    [id |-> <<ver, kind, count>>, background |-> background, text |-> text]

RECURSIVE HighlightOldNewContent(_, _, _)
\* Mutant of HighlightOld: a modified record is rendered with new_content.
HighlightOldNewContent(ds, deletion_count, modification_count) ==
    IF ds = <<>> THEN <<>>
    ELSE LET diff == Head(ds) IN
         CASE diff.type = "equal" ->
                  <<Paragraph("", SanitizeContent(diff.old_content))>>
                      \o HighlightOldNewContent(Tail(ds), deletion_count, modification_count)
           [] diff.type = "added" ->
                  <<Paragraph("#F8F8F8", PlaceholderSecond)>>
                      \o HighlightOldNewContent(Tail(ds), deletion_count, modification_count)
           [] diff.type = "deleted" ->
                  <<Anchored("old", "deletion", deletion_count + 1, "#FFCCCC",
                             SanitizeContent(diff.old_content))>>
                      \o HighlightOldNewContent(Tail(ds), deletion_count + 1, modification_count)
           [] diff.type = "modified" ->
                  <<Anchored("old", "modification", modification_count + 1, "#FFFFCC",
                             SanitizeContent(diff.new_content))>>
                      \o HighlightOldNewContent(Tail(ds), deletion_count, modification_count + 1)
           [] OTHER -> HighlightOldNewContent(Tail(ds), deletion_count, modification_count)

RECURSIVE HighlightOld(_, _, _)
\* The loop of the version == 'old' branch, with its two counters.
HighlightOld(ds, deletion_count, modification_count) ==
    IF ds = <<>> THEN <<>>
    ELSE LET diff == Head(ds) IN
         CASE diff.type = "equal" ->
                  <<Paragraph("", SanitizeContent(diff.old_content))>>
                      \o HighlightOld(Tail(ds), deletion_count, modification_count)
           [] diff.type = "added" ->
                  <<Paragraph("#F8F8F8", PlaceholderSecond)>>
                      \o HighlightOld(Tail(ds), deletion_count, modification_count)
           [] diff.type = "deleted" ->
                  <<Anchored("old", "deletion", deletion_count + 1, "#FFCCCC",
                             SanitizeContent(diff.old_content))>>
                      \o HighlightOld(Tail(ds), deletion_count + 1, modification_count)
           [] diff.type = "modified" ->
                  <<Anchored("old", "modification", modification_count + 1, "#FFFFCC",
                             SanitizeContent(diff.old_content))>>
                      \o HighlightOld(Tail(ds), deletion_count, modification_count + 1)
           [] OTHER -> HighlightOld(Tail(ds), deletion_count, modification_count)

RECURSIVE HighlightNew(_, _, _, _)
\* The loop of the else branch, with its two counters.
HighlightNew(ds, ver, addition_count, modification_count) ==
    IF ds = <<>> THEN <<>>
    ELSE LET diff == Head(ds) IN
         CASE diff.type = "equal" ->
                  <<Paragraph("", SanitizeContent(diff.new_content))>>
                      \o HighlightNew(Tail(ds), ver, addition_count, modification_count)
           [] diff.type = "added" ->
                  <<Anchored(ver, "addition", addition_count + 1, "#CCFFCC",
                             SanitizeContent(diff.new_content))>>
                      \o HighlightNew(Tail(ds), ver, addition_count + 1, modification_count)
           [] diff.type = "deleted" ->
                  <<Paragraph("#F8F8F8", PlaceholderFirst)>>
                      \o HighlightNew(Tail(ds), ver, addition_count, modification_count)
           [] diff.type = "modified" ->
                  <<Anchored(ver, "modification", modification_count + 1, "#FFFFCC",
                             SanitizeContent(diff.new_content))>>
                      \o HighlightNew(Tail(ds), ver, addition_count, modification_count + 1)
           [] OTHER -> HighlightNew(Tail(ds), ver, addition_count, modification_count)

\* highlight_differences(ds, ver)
highlight_differences(ds, ver) ==
    IF ver = "old" THEN HighlightOld(ds, 0, 0) ELSE HighlightNew(ds, ver, 0, 0)

(***************************************************************************)
(* pdf_processor.clean_text and pdf_processor.extract_text_from_pdf        *)
(***************************************************************************)
RECURSIVE CollapseWhitespace(_, _)
\* re.sub(r'\s+', ' ', s[i:]): every maximal run of whitespace becomes one
\* space.
CollapseWhitespace(s, i) ==
    IF i >= Len(s) THEN <<>>
    ELSE IF At(s, i) \in Whitespace
         THEN <<" ">> \o CollapseWhitespace(s, SkipWhitespace(s, i))
         ELSE <<At(s, i)>> \o CollapseWhitespace(s, i + 1)

\* The number of newlines in s[i:j].
Newlines(s, i, j) == Cardinality({k \in i..(j - 1) : At(s, k) = "\n"})

RECURSIVE NormalizeLineBreaks(_, _)
\* re.sub(r'(\n\s*){3,}', '\n\n', s[i:]): a run of whitespace that starts
\* at a newline and holds three newlines or more becomes '\n\n'.
NormalizeLineBreaks(s, i) ==
    IF i >= Len(s) THEN <<>>
    ELSE IF At(s, i) = "\n" /\ Newlines(s, i, SkipWhitespace(s, i)) >= 3
         THEN ParagraphSep \o NormalizeLineBreaks(s, SkipWhitespace(s, i))
         ELSE <<At(s, i)>> \o NormalizeLineBreaks(s, i + 1)

RECURSIVE RStrip(_)
\* s.rstrip()
RStrip(s) ==
    IF s # <<>> /\ s[Len(s)] \in Whitespace THEN RStrip(SubSeq(s, 1, Len(s) - 1))
    ELSE s

\* s.strip()
Strip(s) == RStrip(Slice(s, SkipWhitespace(s, 0), Len(s)))

RECURSIVE StrippedNonEmpty(_)
\* [p.strip() for p in paragraphs if p.strip()]
StrippedNonEmpty(paragraphs) ==
    IF paragraphs = <<>> THEN <<>>
    ELSE (IF Strip(Head(paragraphs)) # <<>> THEN <<Strip(Head(paragraphs))>>
          ELSE <<>>)
             \o StrippedNonEmpty(Tail(paragraphs))

\* clean_text(text)
clean_text(text) ==
    LET collapsed == CollapseWhitespace(text, 0)
        normalized == NormalizeLineBreaks(collapsed, 0)
        paragraphs == SplitParagraphs(normalized)
    IN  Join(ParagraphSep, StrippedNonEmpty(paragraphs))

\* "This PDF is encrypted and cannot be processed."
EncryptedMessage ==
    <<"T", "h", "i", "s", " ", "P", "D", "F", " ", "i", "s", " ", "e",
      "n", "c", "r", "y", "p", "t", "e", "d", " ", "a", "n", "d", " ",
      "c", "a", "n", "n", "o", "t", " ", "b", "e", " ", "p", "r", "o",
      "c", "e", "s", "s", "e", "d", ".">>

\* "No text could be extracted. This might be a scanned document or
\* image-based PDF."
NoTextMessage ==
    <<"N", "o", " ", "t", "e", "x", "t", " ", "c", "o", "u", "l", "d",
      " ", "b", "e", " ", "e", "x", "t", "r", "a", "c", "t", "e", "d",
      ".", " ", "T", "h", "i", "s", " ", "m", "i", "g", "h", "t", " ",
      "b", "e", " ", "a", " ", "s", "c", "a", "n", "n", "e", "d", " ",
      "d", "o", "c", "u", "m", "e", "n", "t", " ", "o", "r", " ", "i",
      "m", "a", "g", "e", "-", "b", "a", "s", "e", "d", " ", "P", "D",
      "F", ".">>

\* "Error extracting text: ", the prefix of the message for an exception.
ErrorPrefix ==
    <<"E", "r", "r", "o", "r", " ", "e", "x", "t", "r", "a", "c", "t",
      "i", "n", "g", " ", "t", "e", "x", "t", ":", " ">>

RECURSIVE PagesText(_)
\* The loop over pdf_reader.pages: the text of every page that has some,
\* each followed by '\n\n'.
PagesText(pages) ==
    IF pages = <<>> THEN <<>>
    ELSE (IF Head(pages) # <<>> THEN Head(pages) \o ParagraphSep ELSE <<>>)
             \o PagesText(Tail(pages))

\* Mutant of extract_text_from_pdf: the cleaned text is returned without the
\* test for blank text.
extract_text_unchecked(pdf) ==
    IF pdf.raises = "open" THEN ErrorPrefix \o pdf.message
    ELSE IF pdf.is_encrypted /\ pdf.decrypt_raises THEN EncryptedMessage
    ELSE IF pdf.raises = "page" THEN ErrorPrefix \o pdf.message
    ELSE clean_text(PagesText(pdf.pages))

\* extract_text_from_pdf(pdf_path), of a file described by: raises, where
\* reading it raises an exception ("open": open() or PdfReader, "page":
\* pdf_reader.pages or extract_text, "no": nowhere) and message, the
\* exception's str(); is_encrypted; decrypt_raises, whether decrypt('')
\* raises; pages, the extract_text() of each page.
extract_text_from_pdf(pdf) ==
    IF pdf.raises = "open" THEN ErrorPrefix \o pdf.message
    ELSE IF pdf.is_encrypted /\ pdf.decrypt_raises THEN EncryptedMessage
    ELSE IF pdf.raises = "page" THEN ErrorPrefix \o pdf.message
    ELSE LET text == clean_text(PagesText(pdf.pages))
         IN  IF Strip(text) = <<>> THEN NoTextMessage ELSE text

(***************************************************************************)
(* The explored inputs.                                                    *)
(***************************************************************************)
\* A sentence, a character that is sanitized, the entity it is sanitized to,
\* a space, a paragraph break.
Tokens ==
    {<<"a", ".">>, <<"<">>, <<"&", "l", "t", ";">>, <<" ">>, <<"\n", "\n">>}

\* The texts of exactly n tokens.
TextsOf(n) == {Concat(ts) : ts \in [1..n -> Tokens]}

\* The two documents of the concrete scenario.
ScenarioA ==
    <<"T", "h", "e", " ", "c", "a", "t", " ", "s", "a", "t", ".", "\n",
      "\n", "D", "o", "g", "s", " ", "b", "a", "r", "k", " ", "l", "o",
      "u", "d", "l", "y", ".">>

ScenarioB ==
    <<"T", "h", "e", " ", "c", "a", "t", " ", "s", "a", "t", ".", "\n",
      "\n", "D", "o", "g", "s", " ", "h", "o", "w", "l", " ", "l", "o",
      "u", "d", "l", "y", ".", " ", "N", "e", "w", " ", "p", "a", "r", "a",
      "g", "r", "a", "p", "h", " ", "h", "e", "r", "e", ".">>

\* Two texts of three paragraphs: the first two are common, the third loses
\* its last two sentences of four.
SpansA ==
    <<"x", "\n", "\n", "y", "\n", "\n", "a", ".", " ", "a", ".", " ",
      "b", ".", " ", "c", ".">>

SpansB ==
    <<"x", "\n", "\n", "y", "\n", "\n", "a", ".", " ", "a", ".">>

Types == {"equal", "added", "deleted", "modified"}

\* Record contents of no word, of three words, and of one word, a character
\* that the renderer escapes, after a space.
Contents == {<<>>, <<"a", " ", "b", " ", "c">>, <<" ", "<">>}

Records == [type : Types, old_content : Contents, new_content : Contents]

RecordLists == UNION {[1..n -> Records] : n \in 0..MaxRecords}

\* Lists of one record more, of one content: of three records, a third and
\* two thirds of which are no floats.
PlainRecords == [type : Types, old_content : {<<"a">>}, new_content : {<<"a">>}]

LongerLists == [1..(MaxRecords + 1) -> PlainRecords]

Versions == {"old", "new"}

NoSummary == [total_elements |-> -1]

\* str(e) of the exceptions raised while a PDF is read.
ExceptionMessages == {<<>>, <<"x">>}

\* What extract_text() gives for a page: nothing, a sentence, and two blocks
\* of which the first is blank.
PageTexts == {<<>>, <<"a", ".">>, <<" ", "\n", "\n", "<">>}

PageLists == UNION {[1..n -> PageTexts] : n \in 0..MaxPages}

\* The uploaded files: those open() or PdfReader fails on, the encrypted one
\* that decrypt('') fails on, those whose pages cannot be read, and those
\* that are read to the end.
Pdfs ==
    {[raises |-> "open", message |-> m, is_encrypted |-> FALSE,
      decrypt_raises |-> FALSE, pages |-> <<>>] : m \in ExceptionMessages}
    \cup {[raises |-> "no", message |-> <<>>, is_encrypted |-> TRUE,
           decrypt_raises |-> TRUE, pages |-> <<>>]}
    \cup {[raises |-> "page", message |-> m, is_encrypted |-> e,
           decrypt_raises |-> FALSE, pages |-> <<>>] :
               m \in ExceptionMessages, e \in BOOLEAN}
    \cup {[raises |-> "no", message |-> <<>>, is_encrypted |-> e,
           decrypt_raises |-> FALSE, pages |-> ps] :
               e \in BOOLEAN, ps \in PageLists}

\* The value of pdf1 and pdf2 while main is not running.
NoPdf ==
    [raises |-> "open", message |-> <<>>, is_encrypted |-> FALSE,
     decrypt_raises |-> FALSE, pages |-> <<>>]

\* compare_texts is not running.
NoSteps ==
    /\ opcodes = <<>>
    /\ sentence_opcodes = <<>>
    /\ alignments = 0

\* main is not running.
NoUpload ==
    /\ pdf1 = NoPdf
    /\ pdf2 = NoPdf
    /\ temp_dir = "none"
    /\ errors = <<>>
    /\ html_export = "none"
    /\ pdf_export = "none"
    /\ views = <<>>
    /\ temp_html = "none"

(***************************************************************************)
(* The operations, each applied to the state the previous one left.        *)
(***************************************************************************)
\* diffs = compare_texts(text1, text2)
CompareTexts ==
    /\ pc = "start"
    /\ diffs' = compare_texts(text1, text2)
    /\ pc' = "compared"
    /\ UNCHANGED <<text1, text2, summary, version, highlighted_text>>
    /\ UNCHANGED <<stepVars, mainVars>>

\* summary = generate_summary(diffs)
GenerateSummary ==
    /\ pc = "compared"
    /\ summary' = generate_summary(diffs)
    /\ pc' = "summarized"
    /\ UNCHANGED <<text1, text2, diffs, version, highlighted_text>>
    /\ UNCHANGED <<stepVars, mainVars>>

\* highlight_differences(diffs, ver)
HighlightDifferences(ver) ==
    /\ pc = "summarized"
    /\ version' = ver
    /\ highlighted_text' = highlight_differences(diffs, ver)
    /\ pc' = "rendered"
    /\ UNCHANGED <<text1, text2, diffs, summary>>
    /\ UNCHANGED <<stepVars, mainVars>>

\* compare_texts on every pair of generated texts (two non-empty texts, or
\* one of them empty) and on the scenario.
Init ==
    /\ pc = "start"
    /\ \/ \E n1 \in 1..MaxTokens : \E n2 \in 1..(MaxTokens - n1) :
              text1 \in TextsOf(n1) /\ text2 \in TextsOf(n2)
       \/ \E n2 \in 0..MaxTokens : text1 = <<>> /\ text2 \in TextsOf(n2)
       \/ \E n1 \in 1..MaxTokens : text1 \in TextsOf(n1) /\ text2 = <<>>
       \/ text1 = ScenarioA /\ text2 = ScenarioB
       \/ text1 = SpansA /\ text2 = SpansB
    /\ diffs = <<>>
    /\ summary = NoSummary
    /\ version = ""
    /\ highlighted_text = <<>>
    /\ NoSteps
    /\ NoUpload

Next == CompareTexts

Spec == Init /\ [][Next]_vars

\* generate_summary and highlight_differences on every generated record list.
InitRecords ==
    /\ pc = "compared"
    /\ text1 = <<>>
    /\ text2 = <<>>
    /\ diffs \in RecordLists \cup LongerLists
    /\ summary = NoSummary
    /\ version = ""
    /\ highlighted_text = <<>>
    /\ NoSteps
    /\ NoUpload

NextRecords ==
    \/ GenerateSummary
    \/ \E ver \in Versions : HighlightDifferences(ver)

SpecRecords == InitRecords /\ [][NextRecords]_vars

(***************************************************************************)
(* compare_texts step by step: one step per opcode of the paragraph loop   *)
(* and of the sentence loop nested in its 'replace' branch.                *)
(***************************************************************************)
Paragraphs1 == SplitParagraphs(SanitizeForDisplay(text1))

Paragraphs2 == SplitParagraphs(SanitizeForDisplay(text2))

\* Sanitize, split into paragraphs, align the paragraphs.
StartCompare ==
    /\ pc = "start"
    /\ opcodes' = GetOpcodes(Paragraphs1, Paragraphs2)
    /\ diffs' = <<>>
    /\ pc' = "paragraphs"
    /\ UNCHANGED <<text1, text2, summary, version, highlighted_text>>
    /\ UNCHANGED <<sentence_opcodes, alignments, mainVars>>

\* An 'equal', 'delete' or 'insert' opcode of the paragraph loop.
ParagraphStep ==
    /\ pc = "paragraphs"
    /\ opcodes # <<>>
    /\ Head(opcodes).tag # "replace"
    /\ diffs' = diffs \o ParagraphRecords(Head(opcodes), Paragraphs1, Paragraphs2)
    /\ opcodes' = Tail(opcodes)
    /\ UNCHANGED <<pc, text1, text2, summary, version, highlighted_text>>
    /\ UNCHANGED <<sentence_opcodes, alignments, mainVars>>

\* A 'replace' opcode of the paragraph loop: its spans are split into
\* sentences and the sentences aligned.
BeginRefinement ==
    /\ pc = "paragraphs"
    /\ opcodes # <<>>
    /\ Head(opcodes).tag = "replace"
    /\ sentence_opcodes' = GetOpcodes(OldSentencesOf(Head(opcodes), Paragraphs1),
                                      NewSentencesOf(Head(opcodes), Paragraphs2))
    /\ alignments' = alignments + 1
    /\ pc' = "sentences"
    /\ UNCHANGED <<text1, text2, diffs, summary, version, highlighted_text>>
    /\ UNCHANGED <<opcodes, mainVars>>

\* One opcode of the sentence loop.
SentenceStep ==
    /\ pc = "sentences"
    /\ sentence_opcodes # <<>>
    /\ diffs' = diffs \o SentenceRecords(Head(sentence_opcodes),
                                          OldSentencesOf(Head(opcodes), Paragraphs1),
                                          NewSentencesOf(Head(opcodes), Paragraphs2))
    /\ sentence_opcodes' = Tail(sentence_opcodes)
    /\ UNCHANGED <<pc, text1, text2, summary, version, highlighted_text>>
    /\ UNCHANGED <<opcodes, alignments, mainVars>>

\* The sentence loop is over: the paragraph loop goes on after the
\* 'replace' opcode.
EndRefinement ==
    /\ pc = "sentences"
    /\ sentence_opcodes = <<>>
    /\ opcodes' = Tail(opcodes)
    /\ pc' = "paragraphs"
    /\ UNCHANGED <<text1, text2, diffs, summary, version, highlighted_text>>
    /\ UNCHANGED <<sentence_opcodes, alignments, mainVars>>

\* return differences
ReturnDifferences ==
    /\ pc = "paragraphs"
    /\ opcodes = <<>>
    /\ pc' = "returned"
    /\ UNCHANGED <<text1, text2, diffs, summary, version, highlighted_text>>
    /\ UNCHANGED <<stepVars, mainVars>>

NextSteps ==
    \/ StartCompare
    \/ ParagraphStep
    \/ BeginRefinement
    \/ SentenceStep
    \/ EndRefinement
    \/ ReturnDifferences

SpecSteps == Init /\ [][NextSteps]_vars

(***************************************************************************)
(* app.main, once both PDFs are uploaded.  An entry of errors is a call of *)
(* st.error: the message shown and the call whose exception it reports     *)
(* ("" when it reports none).                                              *)
(***************************************************************************)
CouldNotExtractFirst == "Could not extract text from the first PDF"

CouldNotExtractSecond == "Could not extract text from the second PDF"

ErrorGeneratingHtml == "Error generating HTML export"

ErrorGeneratingPdf == "Error generating PDF export"

ErrorDuringProcessing == "An error occurred during processing"

StError(shown, exception) == [shown |-> shown, exception |-> exception]

\* Making the temporary directory raises, and none is made; or it is made
\* and saving an upload in it raises: the exception leaves main, the try
\* statement is not entered and the directory is left to the finalizer of
\* its TemporaryDirectory object.
MainSaveRaises ==
    /\ pc = "uploaded"
    /\ \E made \in BOOLEAN : temp_dir' = IF made THEN "created" ELSE "none"
    /\ pc' = "raised"
    /\ UNCHANGED <<text1, text2, diffs, summary, version, highlighted_text>>
    /\ UNCHANGED <<stepVars, pdf1, pdf2, errors, html_export, pdf_export, views>>
    /\ UNCHANGED temp_html

\* The temporary directory is made, the uploads are saved in it and their
\* text is extracted.
MainExtract ==
    /\ pc = "uploaded"
    /\ temp_dir' = "created"
    /\ text1' = extract_text_from_pdf(pdf1)
    /\ text2' = extract_text_from_pdf(pdf2)
    /\ pc' = "extracted"
    /\ UNCHANGED <<diffs, summary, version, highlighted_text, stepVars>>
    /\ UNCHANGED <<pdf1, pdf2, errors, html_export, pdf_export, views>>
    /\ UNCHANGED temp_html

\* The two tests 'if not text.strip()': an error and return, through the
\* finally clause.
MainCheck ==
    /\ pc = "extracted"
    /\ IF Strip(text1) = <<>>
       THEN /\ errors' = Append(errors, StError(CouldNotExtractFirst, ""))
            /\ pc' = "finally"
       ELSE IF Strip(text2) = <<>>
       THEN /\ errors' = Append(errors, StError(CouldNotExtractSecond, ""))
            /\ pc' = "finally"
       ELSE /\ errors' = errors
            /\ pc' = "checked"
    /\ UNCHANGED <<text1, text2, diffs, summary, version, highlighted_text>>
    /\ UNCHANGED <<stepVars, pdf1, pdf2, temp_dir, html_export, pdf_export, views>>
    /\ UNCHANGED temp_html

\* compare_texts, generate_summary and the display of the results; a
\* Streamlit call that raises is caught by the outer handler.
MainResults ==
    /\ pc = "checked"
    /\ LET differences == compare_texts(text1, text2)
       IN  /\ diffs' = differences
           /\ summary' = generate_summary(differences)
    /\ \E raised \in BOOLEAN :
           IF raised
           THEN /\ errors' = Append(errors, StError(ErrorDuringProcessing,
                                                    "display_summary"))
                /\ pc' = "finally"
           ELSE /\ errors' = errors
                /\ pc' = "export_html"
    /\ UNCHANGED <<text1, text2, version, highlighted_text, stepVars>>
    /\ UNCHANGED <<pdf1, pdf2, temp_dir, html_export, pdf_export, views>>
    /\ UNCHANGED temp_html

\* Mutant of MainExportHtml: without the try around the export, its
\* exception is caught by the outer handler.
MainExportHtmlUnguarded ==
    /\ pc = "export_html"
    /\ \E raised \in BOOLEAN :
           IF raised
           THEN /\ html_export' = "failed"
                /\ errors' = Append(errors, StError(ErrorDuringProcessing,
                                                    "export_as_html"))
                /\ pc' = "finally"
           ELSE /\ html_export' = "offered"
                /\ errors' = errors
                /\ pc' = "export_pdf"
    /\ UNCHANGED <<text1, text2, diffs, summary, version, highlighted_text>>
    /\ UNCHANGED <<stepVars, pdf1, pdf2, temp_dir, pdf_export, views>>
    /\ UNCHANGED temp_html

\* The first export column: export_as_html and its download button, or the
\* error of its own handler.
MainExportHtml ==
    /\ pc = "export_html"
    /\ \E raised \in BOOLEAN :
           IF raised
           THEN /\ html_export' = "failed"
                /\ errors' = Append(errors, StError(ErrorGeneratingHtml,
                                                    "export_as_html"))
           ELSE /\ html_export' = "offered"
                /\ errors' = errors
    /\ pc' = "export_pdf"
    /\ UNCHANGED <<text1, text2, diffs, summary, version, highlighted_text>>
    /\ UNCHANGED <<stepVars, pdf1, pdf2, temp_dir, pdf_export, views>>
    /\ UNCHANGED temp_html

\* The second export column, up to the temporary HTML file of export_as_pdf:
\* the report is built and written to a NamedTemporaryFile(delete=False).
\* create_export_html raising leaves no file, the write raising leaves the
\* file behind; either exception is reported by the column's handler.
MainExportPdf ==
    /\ pc = "export_pdf"
    /\ \E outcome \in {"written", "html_raises", "write_raises"} :
           IF outcome = "written"
           THEN /\ temp_html' = "created"
                /\ pc' = "convert_pdf"
                /\ UNCHANGED <<pdf_export, errors>>
           ELSE /\ temp_html' = IF outcome = "write_raises" THEN "created"
                                ELSE "none"
                /\ pdf_export' = "failed"
                /\ errors' = Append(errors, StError(ErrorGeneratingPdf,
                                                    "export_as_pdf"))
                /\ pc' = "details"
    /\ UNCHANGED <<text1, text2, diffs, summary, version, highlighted_text>>
    /\ UNCHANGED <<stepVars, pdf1, pdf2, temp_dir, html_export, views>>

\* Mutant of MainConvertPdf: the file is unlinked after the conversion
\* instead of in a finally clause.
MainConvertPdfNoFinally ==
    /\ pc = "convert_pdf"
    /\ \E raised \in BOOLEAN :
           IF raised
           THEN /\ pdf_export' = "failed"
                /\ errors' = Append(errors, StError(ErrorGeneratingPdf,
                                                    "export_as_pdf"))
                /\ temp_html' = temp_html
           ELSE /\ pdf_export' = "offered"
                /\ errors' = errors
                /\ temp_html' = "deleted"
    /\ pc' = "details"
    /\ UNCHANGED <<text1, text2, diffs, summary, version, highlighted_text>>
    /\ UNCHANGED <<stepVars, pdf1, pdf2, temp_dir, html_export, views>>

\* The rest of the second export column: weasyprint converts the file, which
\* the finally clause of export_as_pdf unlinks whether the conversion
\* returns or raises; then the download button, or the error of the
\* column's handler.
MainConvertPdf ==
    /\ pc = "convert_pdf"
    /\ \E raised \in BOOLEAN :
           IF raised
           THEN /\ pdf_export' = "failed"
                /\ errors' = Append(errors, StError(ErrorGeneratingPdf,
                                                    "export_as_pdf"))
           ELSE /\ pdf_export' = "offered"
                /\ errors' = errors
    /\ temp_html' = "deleted"
    /\ pc' = "details"
    /\ UNCHANGED <<text1, text2, diffs, summary, version, highlighted_text>>
    /\ UNCHANGED <<stepVars, pdf1, pdf2, temp_dir, html_export, views>>

\* The views of the detailed differences in the order of their rendering:
\* the old and the new side of the side-by-side tab, then the two single
\* tabs.
DetailViews == <<"old", "new", "old", "new">>

\* The detailed differences: the views are rendered one by one, each the
\* highlight_differences of its side; a Streamlit call that raises, after
\* 'rendered' of them, is caught by the outer handler and the views after it
\* are not rendered.
MainDetails ==
    /\ pc = "details"
    /\ \E rendered \in 0..Len(DetailViews) :
           /\ views' = SubSeq(DetailViews, 1, rendered)
           /\ IF rendered = 0
              THEN UNCHANGED <<version, highlighted_text>>
              ELSE /\ version' = DetailViews[rendered]
                   /\ highlighted_text' =
                          highlight_differences(diffs, DetailViews[rendered])
           /\ errors' = IF rendered < Len(DetailViews)
                        THEN Append(errors, StError(ErrorDuringProcessing,
                                                    "st.markdown"))
                        ELSE errors
    /\ pc' = "finally"
    /\ UNCHANGED <<text1, text2, diffs, summary, stepVars>>
    /\ UNCHANGED <<pdf1, pdf2, temp_dir, html_export, pdf_export>>
    /\ UNCHANGED temp_html

\* finally: temp_dir.cleanup()
MainFinally ==
    /\ pc = "finally"
    /\ temp_dir' = "cleaned"
    /\ pc' = "done"
    /\ UNCHANGED <<text1, text2, diffs, summary, version, highlighted_text>>
    /\ UNCHANGED <<stepVars, pdf1, pdf2, errors, html_export, pdf_export, views>>
    /\ UNCHANGED temp_html

\* Both uploads are in: any two of the generated PDFs.
InitMain ==
    /\ pc = "uploaded"
    /\ pdf1 \in Pdfs
    /\ pdf2 \in Pdfs
    /\ temp_dir = "none"
    /\ errors = <<>>
    /\ html_export = "none"
    /\ pdf_export = "none"
    /\ views = <<>>
    /\ temp_html = "none"
    /\ text1 = <<>>
    /\ text2 = <<>>
    /\ diffs = <<>>
    /\ summary = NoSummary
    /\ version = ""
    /\ highlighted_text = <<>>
    /\ NoSteps

NextMain ==
    \/ MainSaveRaises
    \/ MainExtract
    \/ MainCheck
    \/ MainResults
    \/ MainExportHtml
    \/ MainExportPdf
    \/ MainConvertPdf
    \/ MainDetails
    \/ MainFinally

SpecMain == InitMain /\ [][NextMain]_vars

\* The positions of main.
MainPositions ==
    {"uploaded", "extracted", "checked", "export_html", "export_pdf",
     "convert_pdf", "details", "finally", "done", "raised"}

\* main moves on from a position that is not its end: every step of NextMain
\* is one, and each position but "done" and "raised" has a step.
MainAdvances ==
    /\ pc \notin {"done", "raised"}
    /\ pc' \in MainPositions \ {pc}

\* main runs to its end: the code is sequential and no statement of it
\* waits.
SpecMainLive == SpecMain /\ WF_pc(MainAdvances)

(***************************************************************************)
(* Vocabulary of the properties.                                           *)
(***************************************************************************)
Compared == pc = "compared"

TheCatSat ==
    <<"T", "h", "e", " ", "c", "a", "t", " ", "s", "a", "t", ".">>

DogsBarkLoudly ==
    <<"D", "o", "g", "s", " ", "b", "a", "r", "k", " ", "l", "o", "u", "d",
      "l", "y", ".">>

DogsHowlLoudly ==
    <<"D", "o", "g", "s", " ", "h", "o", "w", "l", " ", "l", "o", "u", "d",
      "l", "y", ".">>

NewParagraphHere ==
    <<"N", "e", "w", " ", "p", "a", "r", "a", "g", "r", "a", "p", "h", " ",
      "h", "e", "r", "e", ".">>

\* The set of elements of a sequence.
Range(s) == {s[k] : k \in 1..Len(s)}

\* A text that is one paragraph: it holds no paragraph delimiter.
SingleParagraph(t) == Len(SplitParagraphs(t)) = 1

OnlyTypes(ds, types) == \A k \in 1..Len(ds) : ds[k].type \in types

RECURSIVE SideContents(_, _)
\* The contents one side of the records carries, in record order: the old
\* side of equal, deleted and modified records, the new side of equal, added
\* and modified records.
SideContents(ds, side) ==
    IF ds = <<>> THEN <<>>
    ELSE LET r == Head(ds)
             mine == IF side = "old" THEN r.type \in {"equal", "deleted", "modified"}
                     ELSE r.type \in {"equal", "added", "modified"}
         IN  (IF mine
              THEN <<IF side = "old" THEN r.old_content ELSE r.new_content>>
              ELSE <<>>)
                 \o SideContents(Tail(ds), side)

RECURSIVE GroupsCover(_, _)
\* Each content is one or more consecutive sentences joined by a space, and
\* the contents use up the sentences in order, each once.
GroupsCover(cs, ss) ==
    IF cs = <<>> THEN ss = <<>>
    ELSE \E m \in 1..Len(ss) :
             /\ Head(cs) = Join(<<" ">>, SubSeq(ss, 1, m))
             /\ GroupsCover(Tail(cs), SubSeq(ss, m + 1, Len(ss)))

RECURSIVE Traverses(_, _)
\* The contents traverse the paragraphs in order, each once: the next content
\* is the next paragraph, or the next contents are the sentences of the next
\* span of paragraphs.
Traverses(cs, ps) ==
    IF ps = <<>> THEN cs = <<>>
    ELSE \/ /\ cs # <<>>
            /\ Head(cs) = Head(ps)
            /\ Traverses(Tail(cs), Tail(ps))
         \/ \E n \in 1..Len(ps) : \E c \in 1..Len(cs) :
                /\ GroupsCover(SubSeq(cs, 1, c),
                               SplitSentences(Join(ParagraphSep, SubSeq(ps, 1, n))))
                /\ Traverses(SubSeq(cs, c + 1, Len(cs)), SubSeq(ps, n + 1, Len(ps)))

\* [f(x) for x in s]
MapSeq(F(_), s) == [k \in 1..Len(s) |-> F(s[k])]

(***************************************************************************)
(* C1: compare_texts on the scenario                                       *)
(***************************************************************************)
\* C1 as stated: the scenario yields three records, an equal record for
\* "The cat sat.", a modified record "Dogs bark loudly." -> "Dogs howl
\* loudly." and an added record for "New paragraph here.".
C1_ScenarioThreeRecords ==
    (Compared /\ text1 = ScenarioA /\ text2 = ScenarioB)
        => diffs = <<DiffRecord("equal", TheCatSat, TheCatSat),
                     DiffRecord("modified", DogsBarkLoudly, DogsHowlLoudly),
                     DiffRecord("added", <<>>, NewParagraphHere)>>

\* C1 amended: the scenario yields two records, the equal record for "The cat
\* sat." and one modified record whose old_content is "Dogs bark loudly." and
\* whose new_content is both new sentences joined by a space.
C1_ScenarioTwoRecords ==
    (Compared /\ text1 = ScenarioA /\ text2 = ScenarioB)
        => diffs = <<DiffRecord("equal", TheCatSat, TheCatSat),
                     DiffRecord("modified", DogsBarkLoudly,
                                DogsHowlLoudly \o <<" ">> \o NewParagraphHere)>>

C1_Witness == Compared /\ text1 = ScenarioA /\ text2 = ScenarioB /\ Len(diffs) = 2

(***************************************************************************)
(* C2: single paragraphs that share no sentence                            *)
(***************************************************************************)
\* The texts are single paragraphs and no sentence of one is a sentence of
\* the other, the sentences being those of the texts as given (Raw) or as
\* compare_texts sanitizes them.
NoCommonSentence(t1, t2) ==
    /\ SingleParagraph(t1)
    /\ SingleParagraph(t2)
    /\ Range(SplitSentences(t1)) \cap Range(SplitSentences(t2)) = {}

\* C2 as stated: two single-paragraph texts that share no sentence yield only
\* deleted and added records, never a modified record.
C2_OnlyDeletedAndAdded ==
    (Compared /\ NoCommonSentence(text1, text2))
        => OnlyTypes(diffs, {"deleted", "added"})

\* C2 amended: two single-paragraph texts that share no sentence once
\* sanitized yield exactly one record, a modified record spanning both texts:
\* old_content is the first text's sentences joined by a space, new_content
\* the second text's.  No equal, deleted or added record is produced.
C2_OneModifiedRecord ==
    (Compared /\ NoCommonSentence(SanitizeForDisplay(text1), SanitizeForDisplay(text2)))
        => diffs = <<DiffRecord("modified",
                         Join(<<" ">>, SplitSentences(SanitizeForDisplay(text1))),
                         Join(<<" ">>, SplitSentences(SanitizeForDisplay(text2))))>>

\* Two sentences against one different sentence, compared.
C2_Witness ==
    /\ Compared
    /\ NoCommonSentence(SanitizeForDisplay(text1), SanitizeForDisplay(text2))
    /\ Len(SplitSentences(text1)) = 2
    /\ text2 # <<>>
    /\ Len(diffs) = 1

(***************************************************************************)
(* C3: compare_texts(T, T)                                                 *)
(***************************************************************************)
\* C3: a text compared with itself yields one equal record per paragraph of
\* the text, in paragraph order (the record of paragraph k carries that
\* paragraph, sanitized), and no other record.
C3_Identity ==
    (Compared /\ text1 = text2)
        => /\ Len(diffs) = Len(SplitParagraphs(text1))
           /\ \A k \in 1..Len(diffs) :
                  LET p == SanitizeForDisplay(SplitParagraphs(text1)[k])
                  IN  diffs[k] = DiffRecord("equal", p, p)

\* A text of two paragraphs compared with itself.
C3_Witness ==
    Compared /\ text1 = text2 /\ Len(SplitParagraphs(text1)) = 2 /\ Len(diffs) = 2

(***************************************************************************)
(* C4: coverage                                                            *)
(***************************************************************************)
\* C4 as stated: the old-side contents of the records traverse the paragraphs
\* and sentences of the first text, the new-side contents those of the second
\* text, in order and each exactly once.
C4_CoversInputs ==
    Compared
        => /\ Traverses(SideContents(diffs, "old"), SplitParagraphs(text1))
           /\ Traverses(SideContents(diffs, "new"), SplitParagraphs(text2))

\* C4 amended: the same traversal, of the paragraphs and sentences of the two
\* texts as sanitize_for_display rewrites them (< > { } as HTML entities).
C4_CoversSanitizedInputs ==
    Compared
        => /\ Traverses(SideContents(diffs, "old"),
                        SplitParagraphs(SanitizeForDisplay(text1)))
           /\ Traverses(SideContents(diffs, "new"),
                        SplitParagraphs(SanitizeForDisplay(text2)))

\* An equal record followed by a record that carries two sentences of the
\* first text.
C4_Witness ==
    /\ Compared
    /\ Len(diffs) = 2
    /\ diffs[1].type = "equal"
    /\ diffs[2].type \in {"modified", "deleted"}
    /\ Len(SplitSentences(diffs[2].old_content)) = 2

(***************************************************************************)
(* C5: empty inputs                                                        *)
(***************************************************************************)
\* C5: two empty texts yield no record; an empty first text and a non-empty
\* second yield only added records; a non-empty first text and an empty
\* second yield only deleted records.
C5_EmptyInputs ==
    Compared
        => /\ (text1 = <<>> /\ text2 = <<>>) => diffs = <<>>
           /\ (text1 = <<>> /\ text2 # <<>>) => OnlyTypes(diffs, {"added"})
           /\ (text1 # <<>> /\ text2 = <<>>) => OnlyTypes(diffs, {"deleted"})

(***************************************************************************)
(* C6: record shapes                                                       *)
(***************************************************************************)
\* C6: every record of compare_texts has one of the four types; an added
\* record has an empty old_content, a deleted record an empty new_content,
\* an equal record the same old_content and new_content.
C6_RecordShapes ==
    Compared
        => \A k \in 1..Len(diffs) :
               /\ diffs[k].type \in Types
               /\ diffs[k].type = "added" => diffs[k].old_content = <<>>
               /\ diffs[k].type = "deleted" => diffs[k].new_content = <<>>
               /\ diffs[k].type = "equal" => diffs[k].old_content = diffs[k].new_content

\* A result with an added record that carries text and a deleted record that
\* carries text.
C6_Witness ==
    /\ Compared
    /\ \E k \in 1..Len(diffs) : diffs[k].type = "added" /\ diffs[k].new_content # <<>>
    /\ \E k \in 1..Len(diffs) : diffs[k].type = "deleted" /\ diffs[k].old_content # <<>>

(***************************************************************************)
(* C7: the counts of generate_summary                                      *)
(***************************************************************************)
Summarized == summary # NoSummary

\* The number of records of a type.
NumberOf(ds, type) == Cardinality({k \in 1..Len(ds) : ds[k].type = type})

\* C7: the four counts are the numbers of added, deleted, modified and equal
\* records, and they sum to total_elements, the number of records.
C7_CountsSumToTotal ==
    Summarized
        => /\ summary.additions.count = NumberOf(diffs, "added")
           /\ summary.deletions.count = NumberOf(diffs, "deleted")
           /\ summary.modifications.count = NumberOf(diffs, "modified")
           /\ summary.unchanged.count = NumberOf(diffs, "equal")
           /\ summary.additions.count + summary.deletions.count
                  + summary.modifications.count + summary.unchanged.count
                  = summary.total_elements
           /\ summary.total_elements = Len(diffs)

\* The summary of an equal record and a record of another type.
C7_Witness ==
    /\ Summarized
    /\ Len(diffs) = 2
    /\ diffs[1].type = "equal"
    /\ diffs[2].type = "modified"
    /\ summary.total_elements = 2

(***************************************************************************)
(* C8: the percentages of generate_summary                                 *)
(***************************************************************************)
\* The number of the bits a is at most that of the bits b, neither having a
\* leading zero.
LessEq(a, b) ==
    \/ Len(a) < Len(b)
    \/ /\ Len(a) = Len(b)
       /\ \/ a = b
          \/ \E i \in 1..Len(a) :
                 /\ a[i] < b[i]
                 /\ SubSeq(a, 1, i - 1) = SubSeq(b, 1, i - 1)

\* n bits 0.
Zeros(n) == [j \in 1..n |-> 0]

\* The percentage p is a number, and it is count / total * 100, total being
\* positive, as floating point has it: 0 for count 0, and otherwise within
\* the rounding of the division and of the product, which is 2^-51 of the
\* exact value at most: with p = mant * 2^exp,
\*   100 * count * (2^51 - 1) <= mant * total * 2^(exp + 51)
\*                            <= 100 * count * (2^51 + 1).
\* With x = 100 * count, below 2^31, the bits of x * 2^51 + x are those of
\* x, 20 zeros and those of x again, and the bits of x * 2^51 - x are those
\* of x - 1, 20 ones and those of x - 1 inverted.
IsPercentageOf(p, count, total) ==
    /\ Len(p.mant) = MantissaBits
    /\ count = 0 => p = Zero
    /\ count > 0 =>
           /\ p.exp <= 0
           /\ LET scaled == Trim(Product(p.mant, total) \o Zeros(51))
                  x == BitsOf(100 * count)
                  y == BitsOf(100 * count - 1)
                  below == y \o [j \in 1..20 |-> 1] \o [j \in 1..31 |-> 1 - y[j]]
                  above == x \o Zeros(20) \o x
              IN  /\ LessEq(Trim(below \o Zeros(-p.exp)), scaled)
                  /\ LessEq(scaled, Trim(above \o Zeros(-p.exp)))

\* The percentage p is 0.
IsZero(p) == p = Zero

\* C8: no percentage is a division by zero; the summary of the empty list has
\* total_elements 0 and the four percentages 0; otherwise each percentage is
\* count / total_elements * 100, in floating point.
C8_PercentageGuard ==
    Summarized
        => LET t == summary.total_elements
               kinds == <<summary.additions, summary.deletions,
                          summary.modifications, summary.unchanged>>
           IN  /\ \A k \in 1..4 : kinds[k].percentage # ZeroDivisionError
               /\ diffs = <<>> => t = 0 /\ \A k \in 1..4 : IsZero(kinds[k].percentage)
               /\ t > 0 => \A k \in 1..4 :
                      IsPercentageOf(kinds[k].percentage, kinds[k].count, t)

\* The summary of the empty record list.
C8_Witness == Summarized /\ diffs = <<>> /\ summary.total_elements = 0

(***************************************************************************)
(* C9: the word totals of generate_summary                                 *)
(***************************************************************************)
\* The number of whitespace-separated tokens of a content: the positions
\* where a token starts.
TokenCount(content) ==
    Cardinality({i \in 1..Len(content) :
        /\ content[i] \notin Whitespace
        /\ i = 1 \/ content[i - 1] \in Whitespace})

\* The tokens of one side of the records of a type, summed.
TokensOf(ds, type, side) ==
    LET idx == {k \in 1..Len(ds) : ds[k].type = type}
        tokens(k) == TokenCount(IF side = "old" THEN ds[k].old_content
                                ELSE ds[k].new_content)
        total[S \in SUBSET idx] ==
            IF S = {} THEN 0
            ELSE LET k == CHOOSE x \in S : TRUE IN tokens(k) + total[S \ {k}]
    IN  total[idx]

ABC == <<"a", " ", "b", " ", "c">>

\* C9: additions.words sums the tokens of new_content over the added records,
\* deletions.words those of old_content over the deleted records,
\* modifications.words_old and words_new those of old_content and new_content
\* over the modified records; equal records add to no total.  One added
\* record with new_content "a b c" gives additions.words = 3.
C9_WordTotals ==
    Summarized
        => /\ summary.additions.words = TokensOf(diffs, "added", "new")
           /\ summary.deletions.words = TokensOf(diffs, "deleted", "old")
           /\ summary.modifications.words_old = TokensOf(diffs, "modified", "old")
           /\ summary.modifications.words_new = TokensOf(diffs, "modified", "new")
           /\ OnlyTypes(diffs, {"equal"})
                  => /\ summary.additions.words = 0
                     /\ summary.deletions.words = 0
                     /\ summary.modifications.words_old = 0
                     /\ summary.modifications.words_new = 0
           /\ diffs = <<DiffRecord("added", <<>>, ABC)>> => summary.additions.words = 3

\* The summary of the single added record "a b c".
C9_Witness ==
    /\ Summarized
    /\ diffs = <<DiffRecord("added", <<>>, ABC)>>
    /\ summary.additions.words = 3

(***************************************************************************)
(* C10: highlight_differences                                              *)
(***************************************************************************)
Rendered == pc = "rendered"

\* The element renders a content: the content, escaped for HTML, outside a
\* placeholder.
Renders(element, content) ==
    element.text = SanitizeContent(content) /\ element.background # "#F8F8F8"

\* The element is the placeholder with the given text.
IsPlaceholder(element, text) ==
    element.text = text /\ element.background = "#F8F8F8" /\ element.id = <<>>

\* C10: the output has one element per record, in record order; for 'old' the
\* element of an equal, deleted or modified record renders old_content and
\* that of an added record is a placeholder; for 'new' the element of an
\* equal, added or modified record renders new_content and that of a deleted
\* record is a placeholder.
C10_RendersBySide ==
    Rendered
        => /\ Len(highlighted_text) = Len(diffs)
           /\ \A k \in 1..Len(diffs) :
                  LET r == diffs[k]
                      e == highlighted_text[k]
                  IN  /\ (version = "old" /\ r.type \in {"equal", "deleted", "modified"})
                             => Renders(e, r.old_content)
                      /\ (version = "old" /\ r.type = "added")
                             => IsPlaceholder(e, PlaceholderSecond)
                      /\ (version = "new" /\ r.type \in {"equal", "added", "modified"})
                             => Renders(e, r.new_content)
                      /\ (version = "new" /\ r.type = "deleted")
                             => IsPlaceholder(e, PlaceholderFirst)

\* The 'old' rendering of a modified record whose two sides differ and an
\* added record.
C10_Witness ==
    /\ Rendered
    /\ version = "old"
    /\ Len(diffs) = 2
    /\ diffs[1].type = "modified"
    /\ diffs[1].old_content # diffs[1].new_content
    /\ diffs[2].type = "added"
    /\ Len(highlighted_text) = 2


(***************************************************************************)
(* C11: refinement is one level deep                                       *)
(***************************************************************************)
Returned == pc = "returned"

\* The records a step appends to differences.
Appended == SubSeq(diffs', Len(diffs) + 1, Len(diffs'))

\* A flat string: every element is a character, none a list or a record.
IsFlatString(content) ==
    \A k \in 1..Len(content) : content[k] \in STRING

\* The number of 'replace' opcodes among ops.
ReplaceSpans(ops) ==
    Cardinality({k \in 1..Len(ops) : ops[k].tag = "replace"})

\* A step of the paragraph loop appends no modified record.
ParagraphPassEmitsNoModified ==
    pc = "paragraphs" => OnlyTypes(Appended, {"equal", "deleted", "added"})

\* A sentence alignment is made only by the paragraph loop, for a 'replace'
\* opcode, and the sentence loop it starts makes none.
AlignedByParagraphPassOnly ==
    alignments' # alignments =>
        /\ pc = "paragraphs" /\ pc' = "sentences"
        /\ Head(opcodes).tag = "replace"
        /\ alignments' = alignments + 1

\* A sentence-level 'replace' opcode appends one modified record of two flat
\* strings, and its step leaves the sentence opcodes otherwise as they were.
SentenceReplaceIsOneFlatRecord ==
    (pc = "sentences" /\ sentence_opcodes # <<>>
        /\ Head(sentence_opcodes).tag = "replace") =>
        /\ Len(Appended) = 1
        /\ Appended[1].type = "modified"
        /\ IsFlatString(Appended[1].old_content)
        /\ IsFlatString(Appended[1].new_content)
        /\ sentence_opcodes' = Tail(sentence_opcodes)
        /\ alignments' = alignments

\* C11: the paragraph loop never appends a modified record; every
\* paragraph-level 'replace' span is aligned sentence by sentence exactly
\* once (as many alignments as 'replace' spans, each made by the paragraph
\* loop); a sentence-level 'replace' span appends one modified record of flat
\* strings and starts no further alignment; the records returned are those
\* of compare_texts.
C11_OneLevelDeep ==
    /\ [](Returned =>
            /\ alignments = ReplaceSpans(GetOpcodes(Paragraphs1, Paragraphs2))
            /\ diffs = compare_texts(text1, text2))
    /\ [][/\ ParagraphPassEmitsNoModified
           /\ AlignedByParagraphPassOnly
           /\ SentenceReplaceIsOneFlatRecord]_vars

\* Returned after a paragraph-level equal span and a refined 'replace' span
\* whose sentence alignment held a 'replace' span of more than one sentence.
C11_Witness ==
    /\ Returned
    /\ alignments = 1
    /\ Len(diffs) >= 2
    /\ diffs[1].type = "equal"
    /\ \E k \in 2..Len(diffs) :
           /\ diffs[k].type = "modified"
           /\ Len(SplitSentences(diffs[k].new_content)) > 1

(***************************************************************************)
(* C12: a failed extraction is reported and is not compared                *)
(***************************************************************************)
\* The text of the file cannot be extracted: reading it raises, or it is
\* encrypted and cannot be decrypted, or its pages hold no text.
ExtractionFails(pdf) ==
    \/ pdf.raises # "no"
    \/ pdf.is_encrypted /\ pdf.decrypt_raises
    \/ Strip(clean_text(PagesText(pdf.pages))) = <<>>

\* The messages st.error has shown.
Shown == {errors[k].shown : k \in 1..Len(errors)}

\* C12 as stated: when the extraction of either PDF fails, compare_texts and
\* generate_summary are not run on what it returned, and main ends having
\* shown one of the two extraction errors.
C12_FailedExtractionNotCompared ==
    (ExtractionFails(pdf1) \/ ExtractionFails(pdf2)) =>
        /\ summary = NoSummary
        /\ pc \notin {"export_html", "export_pdf", "details"}
        /\ pc = "done" =>
               Shown \cap {CouldNotExtractFirst, CouldNotExtractSecond} # {}

(***************************************************************************)
(* C13: the contents of the records are text of the inputs                 *)
(***************************************************************************)
\* A unit of a text: one of its paragraphs, or consecutive sentences of
\* consecutive paragraphs joined by single spaces.
IsUnitOf(content, text) ==
    LET ps == SplitParagraphs(text)
    IN  \/ content \in Range(ps)
        \/ \E lo \in 1..Len(ps) : \E hi \in lo..Len(ps) :
               LET ss == SplitSentences(Join(ParagraphSep, SubSeq(ps, lo, hi)))
               IN  \E from \in 1..Len(ss) : \E to \in from..Len(ss) :
                       content = Join(<<" ">>, SubSeq(ss, from, to))

\* The entity written for a character, or the character itself.
EntityOf(c) ==
    CASE c = "<" -> <<"&", "l", "t", ";">>
      [] c = ">" -> <<"&", "g", "t", ";">>
      [] c = "{" -> <<"&", "#", "1", "2", "3", ";">>
      [] c = "}" -> <<"&", "#", "1", "2", "5", ";">>
      [] OTHER   -> <<c>>

\* The text with an entity in place of each of its < > { }.
WithEntities(text) == Concat([k \in 1..Len(text) |-> EntityOf(text[k])])

\* Every content the records carry is a unit of the text.
ContentsAreUnitsOf(ds, side, text) ==
    \A k \in 1..Len(SideContents(ds, side)) :
        IsUnitOf(SideContents(ds, side)[k], text)

\* C13 as stated: every content a record carries is verbatim text of the
\* input of its side (a paragraph, a sentence, or sentences joined by a single
\* space), no character substituted.
C13_VerbatimContents ==
    Compared =>
        /\ ContentsAreUnitsOf(diffs, "old", text1)
        /\ ContentsAreUnitsOf(diffs, "new", text2)

\* C13 amended: every content a record carries is a paragraph, a sentence or
\* space-joined sentences of the input of its side in which each of < > { }
\* is replaced by its entity, and nothing else is changed.
C13_ContentsWithEntities ==
    Compared =>
        /\ ContentsAreUnitsOf(diffs, "old", WithEntities(text1))
        /\ ContentsAreUnitsOf(diffs, "new", WithEntities(text2))

\* A modified record whose old content holds an entity for a '<' of the
\* first text, which holds no '&'.
C13_Witness ==
    /\ Compared
    /\ "<" \in Range(text1)
    /\ "&" \notin Range(text1)
    /\ \E k \in 1..Len(diffs) :
           /\ diffs[k].type = "modified"
           /\ "&" \in Range(diffs[k].old_content)

(***************************************************************************)
(* C14: blank paragraphs                                                   *)
(***************************************************************************)
\* A paragraph that is empty or all whitespace.
IsBlank(content) == Strip(content) = <<>>

IsNotBlank(content) == ~IsBlank(content)

\* C14 as stated: the records are those of the alignment of the two lists of
\* non-blank paragraphs, the empty and whitespace-only paragraphs dropped, so
\* that no record stands for a blank paragraph.
C14_BlankParagraphsDropped ==
    Compared =>
        LET kept1 == SelectSeq(Paragraphs1, IsNotBlank)
            kept2 == SelectSeq(Paragraphs2, IsNotBlank)
        IN  diffs = ParagraphLoop(GetOpcodes(kept1, kept2), kept1, kept2)

(***************************************************************************)
(* C15: no record with an empty side it should carry                       *)
(***************************************************************************)
\* C15 as stated: a modified record has non-empty old and new content, a
\* deleted record non-empty old content, an added record non-empty new
\* content; a side without text gives added or deleted records instead of a
\* modified one.
C15_NoEmptySide ==
    Compared =>
        \A k \in 1..Len(diffs) :
            /\ diffs[k].type \in {"modified", "deleted"} =>
                   diffs[k].old_content # <<>>
            /\ diffs[k].type \in {"modified", "added"} =>
                   diffs[k].new_content # <<>>

(***************************************************************************)
(* C16: equal records stand for identical units                            *)
(***************************************************************************)
\* The paragraphs of a text and the sentences of its spans of paragraphs.
UnitsOf(text) ==
    LET ps == SplitParagraphs(text)
    IN  Range(ps)
        \cup UNION {Range(SplitSentences(Join(ParagraphSep, SubSeq(ps, lo, hi)))) :
                       lo \in 1..Len(ps), hi \in 1..Len(ps)}

\* C16 as stated: an equal record stands for a paragraph or sentence that the
\* two input texts both hold, character for character.
C16_EqualOnlyIfIdentical ==
    Compared =>
        \A k \in 1..Len(diffs) :
            diffs[k].type = "equal" =>
                \E unit \in UnitsOf(text1) \cap UnitsOf(text2) :
                    diffs[k].old_content = WithEntities(unit)

(***************************************************************************)
(* C17: the granularity of the records                                     *)
(***************************************************************************)
\* An opcode as a span of units at a level: the units of each side.
SpanOf(level, op, old_units, new_units) ==
    [level |-> level, tag |-> op.tag,
     old |-> Slice(old_units, op.i1, op.i2),
     new |-> Slice(new_units, op.j1, op.j2)]

\* The spans of one paragraph opcode: itself, or for a 'replace' the spans of
\* its sentence alignment.
SpansOfOpcode(op) ==
    IF op.tag # "replace"
    THEN <<SpanOf("paragraph", op, Paragraphs1, Paragraphs2)>>
    ELSE LET old_sentences == OldSentencesOf(op, Paragraphs1)
             new_sentences == NewSentencesOf(op, Paragraphs2)
             ops == GetOpcodes(old_sentences, new_sentences)
         IN  [k \in 1..Len(ops) |->
                 SpanOf("sentence", ops[k], old_sentences, new_sentences)]

\* The spans of the comparison of text1 and text2, in order.
Spans ==
    LET ops == GetOpcodes(Paragraphs1, Paragraphs2)
    IN  Concat([k \in 1..Len(ops) |-> SpansOfOpcode(ops[k])])

\* A span that yields one record per unit: every equal span, and the delete
\* and insert spans of the paragraph level.
OnePerUnit(span) == span.tag = "equal" \/ span.level = "paragraph"

TypeOfTag(tag) ==
    CASE tag = "equal"   -> "equal"
      [] tag = "replace" -> "modified"
      [] tag = "delete"  -> "deleted"
      [] tag = "insert"  -> "added"

\* The number of records of a span.
RecordsOfSpan(span) ==
    IF ~OnePerUnit(span) THEN 1
    ELSE IF span.tag = "insert" THEN Len(span.new)
    ELSE Len(span.old)

\* The records are those of the span: one per unit carrying the unit, or one
\* carrying each side's units joined by single spaces.
IsOfSpan(ds, span) ==
    /\ Len(ds) = RecordsOfSpan(span)
    /\ \A k \in 1..Len(ds) :
           /\ ds[k].type = TypeOfTag(span.tag)
           /\ ds[k].old_content =
                  IF span.tag = "insert" THEN <<>>
                  ELSE IF OnePerUnit(span) THEN span.old[k]
                  ELSE Join(<<" ">>, span.old)
           /\ ds[k].new_content =
                  IF span.tag = "delete" THEN <<>>
                  ELSE IF OnePerUnit(span) THEN span.new[k]
                  ELSE Join(<<" ">>, span.new)

RECURSIVE AreOfSpans(_, _)
\* The records are those of the spans, span after span.
AreOfSpans(ds, spans) ==
    IF spans = <<>> THEN ds = <<>>
    ELSE LET n == RecordsOfSpan(Head(spans))
         IN  /\ Len(ds) >= n
             /\ IsOfSpan(SubSeq(ds, 1, n), Head(spans))
             /\ AreOfSpans(SubSeq(ds, n + 1, Len(ds)), Tail(spans))

\* C17: an equal, delete or insert span of n paragraphs yields n records, one
\* per paragraph; in a refined replace span an equal span of n sentences
\* yields n equal records, and each replace, delete or insert span of
\* sentences yields exactly one record (modified, deleted, added) whose
\* content is that side's sentences joined by a single space.
C17_Granularity == Compared => AreOfSpans(diffs, Spans)

\* A comparison with an equal span of two paragraphs and a refined replace
\* span whose sentence alignment is an equal span of two sentences and a
\* delete span of two sentences.
C17_Witness ==
    /\ Compared
    /\ Len(diffs) = 5
    /\ \E k \in 1..Len(Spans) :
           /\ Spans[k].level = "paragraph"
           /\ Spans[k].tag = "equal"
           /\ Len(Spans[k].old) = 2
    /\ \E k \in 1..Len(Spans) :
           /\ Spans[k].level = "sentence"
           /\ Spans[k].tag = "equal"
           /\ Len(Spans[k].old) = 2
    /\ \E k \in 1..Len(Spans) :
           /\ Spans[k].level = "sentence"
           /\ Spans[k].tag = "delete"
           /\ Len(Spans[k].old) = 2

(***************************************************************************)
(* C18: clean_text and the paragraph convention                            *)
(***************************************************************************)
\* The file is read to its end: no exception, decrypted if encrypted.
IsRead(pdf) == pdf.raises = "no" /\ ~(pdf.is_encrypted /\ pdf.decrypt_raises)

\* The non-blank blocks of a text, blocks being separated by '\n\n', each
\* stripped.
BlocksOf(text) == StrippedNonEmpty(SplitParagraphs(text))

\* C18 as stated: the text extracted from a file that is read to its end and
\* holds text is the non-blank blocks of its pages' text, stripped and joined
\* by one '\n\n', so that compare_texts splits it into as many paragraphs as
\* there are blocks.
C18_BlocksKept ==
    (pc = "extracted" /\ IsRead(pdf1) /\ ~ExtractionFails(pdf1)) =>
        LET blocks == BlocksOf(PagesText(pdf1.pages))
        IN  /\ text1 = Join(ParagraphSep, blocks)
            /\ Len(SplitParagraphs(text1)) = Len(blocks)

(***************************************************************************)
(* C19: a failed export is reported and stops nothing else                 *)
(***************************************************************************)
\* The calls whose exception the outer handler has reported.
CaughtByOuterHandler ==
    {errors[k].exception :
        k \in {j \in 1..Len(errors) : errors[j].shown = ErrorDuringProcessing}}

\* C19: when export_as_html raises, the HTML-export error is shown, the PDF
\* export is still attempted and the detailed differences still rendered;
\* when export_as_pdf raises, the PDF-export error is shown and the detailed
\* differences still rendered (unless their own rendering raises); the outer
\* handler reports neither export's exception.
C19_ExportFailureIsolated ==
    /\ html_export = "failed" =>
           /\ ErrorGeneratingHtml \in Shown
           /\ pc \in {"finally", "done"} => pdf_export # "none"
    /\ pdf_export = "failed" => ErrorGeneratingPdf \in Shown
    /\ (pc = "done" /\ "failed" \in {html_export, pdf_export}) =>
           \/ views = <<"old", "new", "old", "new">>
           \/ "st.markdown" \in CaughtByOuterHandler
    /\ CaughtByOuterHandler \cap {"export_as_html", "export_as_pdf"} = {}

\* main is over, both exports raised and the detailed differences are
\* rendered.
C19_Witness ==
    /\ pc = "done"
    /\ html_export = "failed"
    /\ pdf_export = "failed"
    /\ views = <<"old", "new", "old", "new">>
    /\ highlighted_text # <<>>

(***************************************************************************)
(* C20: extract_text_from_pdf always returns a non-blank string            *)
(***************************************************************************)
\* C20: whatever the file (read to its end, unreadable, encrypted, without
\* text), extract_text_from_pdf returns a string that is not blank, and main
\* never takes a 'Could not extract text' branch.
C20_ExtractedTextNeverBlank ==
    /\ pc \notin {"uploaded", "raised"} =>
           /\ IsNotBlank(text1)
           /\ IsNotBlank(text2)
    /\ Shown \cap {CouldNotExtractFirst, CouldNotExtractSecond} = {}

\* main has passed both tests for blank text although the first file holds
\* pages without text and the second cannot be opened.
C20_Witness ==
    /\ pc = "checked"
    /\ IsRead(pdf1)
    /\ Len(pdf1.pages) > 0
    /\ ExtractionFails(pdf1)
    /\ pdf2.raises = "open"
    /\ pdf2.message = <<>>

(***************************************************************************)
(* C21: temporary resources are released                                   *)
(***************************************************************************)
\* main has entered its try statement: the extraction has started.
ExtractionStarted == pc \notin {"uploaded", "raised"}

\* C21: once main has started the extraction, it ends with the temporary
\* directory cleaned up, whether the processing completes or an exception is
\* raised in it (the early return on blank text would pass through the same
\* finally clause); and once export_as_pdf has written its temporary HTML
\* file and starts the conversion, the file is deleted, whether the
\* conversion returns or raises, and is never there when main ends.
C21_TemporaryResourcesReleased ==
    /\ ExtractionStarted ~> (pc = "done" /\ temp_dir = "cleaned")
    /\ (pc = "convert_pdf" /\ temp_html = "created") ~> (temp_html = "deleted")
    /\ [](pc = "done" => temp_dir = "cleaned")
    /\ [](pdf_export = "offered" => temp_html = "deleted")

\* main has ended with the directory cleaned up after the PDF conversion
\* raised, its file deleted, and after the rendering of the details raised
\* into the outer handler.
C21_Witness ==
    /\ pc = "done"
    /\ temp_dir = "cleaned"
    /\ temp_html = "deleted"
    /\ pdf_export = "failed"
    /\ "st.markdown" \in CaughtByOuterHandler

=============================================================================
